---- MODULE Spec2Model ----
(***************************************************************************)
(* The auction settlement engine of the marketplace backend: the auction   *)
(* and bid tables, the balance ledger, the transaction log, the request    *)
(* handlers of backend/app.py that change them and the two settlement      *)
(* implementations (app._process_ended_auction, used by close-now and      *)
(* process-ended, and AuctionService.process_ended_auction, used by the    *)
(* scheduler job).                                                         *)
(*                                                                         *)
(* Money is counted in units of 1/40 of the smallest bid step, so that the *)
(* 2.5% platform fee of every amount of the model is a whole number; the   *)
(* floats of the code are modelled as exact numbers.  NULL is 0.  Time is  *)
(* abstracted to the one fact the code reads about it: whether an          *)
(* auction's end_time is at or before now (field expired).                 *)
(***************************************************************************)
EXTENDS Integers, Sequences, FiniteSets, TLC

\* ---- bounds of the model ------------------------------------------------
NumUsers == 3
MaxArtworks == 1
MaxBids == 2
MaxTransactions == 5
MaxAmount == 2
MaxCashOps == 1
MaxRequests == 2
MaxBatchArtworks == 2
MaxBatchBids == 3
MaxBatchTransactions == 7
MaxLiveBids == 1

\* ---- program constants --------------------------------------------------
NULL == 0
PLATFORM_FEE_PERMILLE == 25

Users == 1 .. NumUsers
\* users registered with role 'seller' (require_auth(role='seller'))
Sellers == {1}
\* the users whose deposits and withdrawals are explored
CashUsers == {2}
\* the amounts a request may carry: multiples of 40 units
Amounts == {40 * k : k \in 1 .. MaxAmount}
\* the start prices and reserve prices a listing request may carry
StartPrices == {20}
ReservePrices == {NULL, 40 * MaxAmount}
\* the price a fixed-price listing request may carry
FixedPrices == {40}
\* the amount a deposit or withdrawal request may carry
CashAmounts == {40}

VARIABLES
    artworks,      \* table artworks: seq of [owner_id, is_listed, listing_type, price]
    auctions,      \* table auctions: seq of [artwork_id, seller_id, start_price,
                   \*   reserve_price, expired, status, winner_id]
    bids,          \* table bids: seq of [auction_id, bidder_id, amount, is_active]
    balances,      \* table balances: user -> [available_balance, pending_balance]
    transactions,  \* table transactions: seq of [user_id, type, amount, status, artwork_id]
    fees,          \* platform_fee withheld so far (the amount no balance is credited with)
    op,            \* the request served last: [name, user, art, target, amount, ok]
    requests,      \* bid requests in flight: worker -> [pc, user, art, amount, snap]
    faults         \* what the scheduler meets on every tick: [raising, scan], the
                   \*   auctions whose settlement raises and the order of the scan

vars == <<artworks, auctions, bids, balances, transactions, fees, op, requests, faults>>

\* the committed database as one value
DB ==
    [artworks |-> artworks, auctions |-> auctions, bids |-> bids,
     balances |-> balances, transactions |-> transactions, fees |-> fees]

\* ---- arithmetic helpers --------------------------------------------------
Max(a, b) == IF a >= b THEN a ELSE b

RECURSIVE SumOver(_, _)
SumOver(S, f) ==
    IF S = {} THEN 0
    ELSE LET x == CHOOSE y \in S : TRUE IN f[x] + SumOver(S \ {x}, f)

\* platform_fee = winning_amount * Config.PLATFORM_FEE_RATE
PlatformFee(amount) == (amount * PLATFORM_FEE_PERMILLE) \div 1000

\* ---- queries over the bids table ---------------------------------------------
\* rows WHERE auction_id = a AND is_active = 1
ActiveBids(db, a) ==
    {i \in DOMAIN db.bids : db.bids[i].auction_id = a /\ db.bids[i].is_active}

\* rows WHERE auction_id = a AND bidder_id = u AND is_active = 1
ActiveBidsOf(db, a, u) ==
    {i \in ActiveBids(db, a) : db.bids[i].bidder_id = u}

\* SELECT bidder_id, SUM(amount) ... GROUP BY bidder_id : the bidders
ActiveBidders(db, a) == {db.bids[i].bidder_id : i \in ActiveBids(db, a)}

\* ... and each one's SUM(amount)
TotalAmount(db, a, u) ==
    SumOver(ActiveBidsOf(db, a, u), [i \in DOMAIN db.bids |-> db.bids[i].amount])

\* (SELECT MAX(b.amount) FROM bids b WHERE b.auction_id = au.id AND b.is_active = 1)
current_bid(db, a) ==
    IF ActiveBids(db, a) = {} THEN NULL
    ELSE CHOOSE m \in {db.bids[i].amount : i \in ActiveBids(db, a)} :
            \A i \in ActiveBids(db, a) : db.bids[i].amount <= m

\* find_winning_bid without the is_active filter: any bid row of the auction
find_winning_bid_any_row(db, a) ==
    LET rows == {i \in DOMAIN db.bids : db.bids[i].auction_id = a}
    IN  IF rows = {} THEN {NULL}
        ELSE {i \in rows : \A j \in rows : db.bids[j].amount <= db.bids[i].amount}

\* SELECT bidder_id, amount ... ORDER BY amount DESC LIMIT 1: the rows the
\* query may return; SQL leaves the order among equal amounts unspecified.
find_winning_bid(db, a) ==
    IF ActiveBids(db, a) = {} THEN {NULL}
    ELSE {i \in ActiveBids(db, a) : db.bids[i].amount = current_bid(db, a)}

\* ---- the ledger ---------------------------------------------------------------
\* available_balance + ?, pending_balance = max(0, pending_balance - ?)
ReleaseHold(bal, u, total) ==
    [bal EXCEPT ![u] = [available_balance |-> @.available_balance + total,
                        pending_balance |-> Max(0, @.pending_balance - total)]]

\* UPDATE transactions SET status = s WHERE user_id = u AND artwork_id = art
\*   AND type IN ('bid', 'bid_increase') AND status = 'pending'
FlipPending(txns, u, art, s) ==
    [i \in DOMAIN txns |->
        IF /\ txns[i].user_id = u
           /\ txns[i].artwork_id = art
           /\ txns[i].type \in {"bid", "bid_increase"}
           /\ txns[i].status = "pending"
        THEN [txns[i] EXCEPT !.status = s]
        ELSE txns[i]]

Txn(u, type, amount, status, art) ==
    [user_id |-> u, type |-> type, amount |-> amount, status |-> status, artwork_id |-> art]

\* DeactivateBidsOf without the UPDATE
DeactivateBidsOf_skipped(bs, a, u) == bs

\* UPDATE bids SET is_active = 0 WHERE auction_id = a AND bidder_id = u AND is_active = 1
DeactivateBidsOf(bs, a, u) ==
    [i \in DOMAIN bs |->
        IF bs[i].auction_id = a /\ bs[i].bidder_id = u
        THEN [bs[i] EXCEPT !.is_active = FALSE] ELSE bs[i]]

\* DeactivateBids without "auction_id = a" in its WHERE
DeactivateBids_every_auction(bs, a) ==
    [i \in DOMAIN bs |-> [bs[i] EXCEPT !.is_active = FALSE]]

\* UPDATE bids SET is_active = 0 WHERE auction_id = a AND is_active = 1
DeactivateBids(bs, a) ==
    [i \in DOMAIN bs |->
        IF bs[i].auction_id = a THEN [bs[i] EXCEPT !.is_active = FALSE] ELSE bs[i]]

\* ---- refunds ------------------------------------------------------------------
\* One bidder's refund: release the hold, cancel the pending bid transactions,
\* record a completed bid_refund, deactivate the bidder's bids on this auction.
RefundBidder(db, a, art, u, total) ==
    [db EXCEPT
        !.balances = ReleaseHold(@, u, total),
        !.transactions =
            Append(FlipPending(@, u, art, "cancelled"),
                   Txn(u, "bid_refund", total, "completed", art)),
        !.bids = DeactivateBidsOf(@, a, u)]

\* for bidder in <the bidders S, as fetched before the loop>: refund
RECURSIVE RefundAll(_, _, _, _, _)
RefundAll(db, db0, a, art, S) ==
    IF S = {} THEN db
    ELSE LET u == CHOOSE x \in S : \A y \in S : x <= y
         IN RefundAll(RefundBidder(db, a, art, u, TotalAmount(db0, a, u)),
                      db0, a, art, S \ {u})

\* app.refund_active_bids: refund every active bidder of the auction, then
\* deactivate every bid of the auction.
refund_active_bids(db, a) ==
    LET art == db.auctions[a].artwork_id
        refunded == RefundAll(db, db, a, art, ActiveBidders(db, a))
    IN [refunded EXCEPT !.bids = DeactivateBids(@, a)]

\* app.cancel_auction: no look at the auction's status
cancel_auction(db, a) ==
    IF a \notin DOMAIN db.auctions THEN db
    ELSE [refund_active_bids(db, a) EXCEPT !.auctions[a].status = "cancelled"]

\* ---- settlement, app._process_ended_auction --------------------------------
\* wb: the row find_winning_bid returned (NULL when the auction has no active bid)
app_process_ended_auction(db, a, wb) ==
    LET auction == db.auctions[a]
        art == auction.artwork_id
        seller_id == auction.seller_id
        winner_id == IF wb = NULL THEN NULL ELSE db.bids[wb].bidder_id
        winning_amount == IF wb = NULL THEN NULL ELSE db.bids[wb].amount
        reserve_price == auction.reserve_price
        reserve_not_met ==
            /\ winner_id # NULL /\ winning_amount # NULL /\ reserve_price # NULL
            /\ winning_amount < reserve_price
        final_winner_id == IF reserve_not_met THEN NULL ELSE winner_id
        closed == [db EXCEPT !.auctions[a].status = "closed",
                             !.auctions[a].winner_id = final_winner_id]
    IN  IF winner_id # NULL /\ winning_amount # NULL /\ ~reserve_not_met
        THEN
            LET platform_fee == PlatformFee(winning_amount)
                seller_receives == winning_amount - platform_fee
                \* new_pending = max(0, pending_balance - winning_amount)
                b1 == [closed.balances EXCEPT ![winner_id].pending_balance =
                            Max(0, @ - winning_amount)]
                \* available_balance = available_balance + seller_receives
                b2 == [b1 EXCEPT ![seller_id].available_balance = @ + seller_receives]
                sold == [closed EXCEPT
                    !.artworks[art].owner_id = winner_id,
                    !.artworks[art].is_listed = FALSE,
                    !.balances = b2,
                    !.fees = @ + platform_fee,
                    !.transactions =
                        Append(Append(FlipPending(@, winner_id, art, "completed"),
                                      Txn(winner_id, "purchase", winning_amount, "completed", art)),
                               Txn(seller_id, "sale", seller_receives, "completed", art))]
            IN  \* refund all losing bidders (bidder_id != final_winner_id)
                RefundAll(sold, sold, a, art, ActiveBidders(sold, a) \ {final_winner_id})
        ELSE
            LET delisted == [closed EXCEPT !.artworks[art].is_listed = FALSE,
                                           !.artworks[art].listing_type = "none"]
            IN  IF reserve_not_met
                THEN RefundAll(delisted, delisted, a, art, ActiveBidders(delisted, a))
                ELSE delisted

\* ---- BalanceRepository.update -----------------------------------------------
\* A numeric value is ADDED to the column ("key = key + ?"); updates is a
\* record of numbers here, so every column named in it is incremented.
BalanceRepository_update(bal, u, updates) ==
    [bal EXCEPT ![u] =
        [c \in DOMAIN @ |-> IF c \in DOMAIN updates THEN @[c] + updates[c] ELSE @[c]]]

\* ---- settlement, AuctionService ------------------------------------------------
AuctionService_refund_bidder(db, a, art, u, total) == RefundBidder(db, a, art, u, total)

RECURSIVE AuctionService_refund_all(_, _, _, _, _)
AuctionService_refund_all(db, db0, a, art, S) ==
    IF S = {} THEN db
    ELSE LET u == CHOOSE x \in S : \A y \in S : x <= y
         IN AuctionService_refund_all(
                AuctionService_refund_bidder(db, a, art, u, TotalAmount(db0, a, u)),
                db0, a, art, S \ {u})

AuctionService_process_successful_sale(db, a, art, winner_id, winning_amount, seller_id) ==
    LET platform_fee == PlatformFee(winning_amount)
        seller_receives == winning_amount - platform_fee
        new_pending == Max(0, db.balances[winner_id].pending_balance - winning_amount)
        b1 == BalanceRepository_update(db.balances, winner_id,
                                       [pending_balance |-> new_pending])
        b2 == BalanceRepository_update(b1, seller_id,
                  [available_balance |-> b1[seller_id].available_balance + seller_receives])
        sold == [db EXCEPT
            !.artworks[art].owner_id = winner_id,
            !.artworks[art].is_listed = FALSE,
            !.balances = b2,
            !.fees = @ + platform_fee,
            !.transactions =
                Append(Append(@, Txn(winner_id, "purchase", winning_amount, "completed", art)),
                       Txn(seller_id, "sale", seller_receives, "completed", art))]
    IN  AuctionService_refund_all(sold, sold, a, art, ActiveBidders(sold, a) \ {winner_id})

AuctionService_process_reserve_not_met(db, a, art) ==
    LET delisted == [db EXCEPT !.artworks[art].is_listed = FALSE]
    IN  AuctionService_refund_all(delisted, delisted, a, art, ActiveBidders(delisted, a))

AuctionService_process_ended_auction(db, a, wb) ==
    LET auction == db.auctions[a]
        art == auction.artwork_id
        seller_id == auction.seller_id
        winner_id == IF wb = NULL THEN NULL ELSE db.bids[wb].bidder_id
        winning_amount == IF wb = NULL THEN NULL ELSE db.bids[wb].amount
        reserve_price == auction.reserve_price
        reserve_not_met ==
            /\ winner_id # NULL /\ winning_amount # NULL /\ reserve_price # NULL
            /\ winning_amount < reserve_price
        final_winner_id == IF reserve_not_met THEN NULL ELSE winner_id
        closed == [db EXCEPT !.auctions[a].status = "closed",
                             !.auctions[a].winner_id = final_winner_id]
    IN  IF final_winner_id # NULL /\ winning_amount # NULL
        THEN AuctionService_process_successful_sale(
                 closed, a, art, final_winner_id, winning_amount, seller_id)
        ELSE IF reserve_not_met
        THEN AuctionService_process_reserve_not_met(closed, a, art)
        ELSE [closed EXCEPT !.artworks[art].is_listed = FALSE]

\* ---- lookups -----------------------------------------------------------------
\* SELECT id FROM auctions WHERE artwork_id = art  (NULL when there is none)
AuctionOf(db, art) ==
    IF \E a \in DOMAIN db.auctions : db.auctions[a].artwork_id = art
    THEN CHOOSE a \in DOMAIN db.auctions :
            /\ db.auctions[a].artwork_id = art
            /\ \A b \in DOMAIN db.auctions : db.auctions[b].artwork_id = art => a <= b
    ELSE NULL

\* SELECT id FROM auctions WHERE artwork_id = art AND status = 'open'
OpenAuctionOf(db, art) ==
    IF \E a \in DOMAIN db.auctions :
            db.auctions[a].artwork_id = art /\ db.auctions[a].status = "open"
    THEN CHOOSE a \in DOMAIN db.auctions :
            /\ db.auctions[a].artwork_id = art /\ db.auctions[a].status = "open"
            /\ \A b \in DOMAIN db.auctions :
                  (db.auctions[b].artwork_id = art /\ db.auctions[b].status = "open") => a <= b
    ELSE NULL

\* WHERE au.status = 'open' AND au.end_time <= now
EndedAuctions(db) ==
    {a \in DOMAIN db.auctions : db.auctions[a].status = "open" /\ db.auctions[a].expired}

Accept(db) == [db |-> db, ok |-> TRUE]
Reject(db) == [db |-> db, ok |-> FALSE]

\* ---- POST /api/artworks/<id>/list ----------------------------------------------
\* a listing as auction that inserts a new auction row and leaves an open
\* auction of the artwork as it is
list_artwork_inserts_a_row(db, u, art, listing_type, price, reserve_price) ==
    IF art \notin DOMAIN db.artworks THEN Reject(db)
    ELSE IF db.artworks[art].owner_id # u THEN Reject(db)
    ELSE IF price <= 0 THEN Reject(db)
    ELSE IF listing_type = "fixed"
    THEN LET c == IF AuctionOf(db, art) # NULL
                  THEN cancel_auction(db, AuctionOf(db, art)) ELSE db
         IN Accept([c EXCEPT !.artworks[art].is_listed = TRUE,
                             !.artworks[art].price = price,
                             !.artworks[art].listing_type = "fixed"])
    ELSE IF reserve_price # NULL /\ reserve_price < price THEN Reject(db)
    ELSE Accept([db EXCEPT
            !.auctions = Append(@, [artwork_id |-> art, seller_id |-> u,
                                    start_price |-> price, reserve_price |-> reserve_price,
                                    expired |-> FALSE, status |-> "open",
                                    winner_id |-> NULL]),
            !.artworks[art].is_listed = TRUE,
            !.artworks[art].listing_type = "auction",
            !.artworks[art].price = price])

list_artwork(db, u, art, listing_type, price, reserve_price) ==
    IF art \notin DOMAIN db.artworks THEN Reject(db)
    ELSE IF db.artworks[art].owner_id # u THEN Reject(db)
    ELSE
    LET open_auction == OpenAuctionOf(db, art)
        existing_auction == AuctionOf(db, art)
    IN  IF listing_type = "fixed"
        THEN
            IF price <= 0 THEN Reject(db)
            ELSE LET c == IF existing_auction # NULL
                          THEN cancel_auction(db, existing_auction) ELSE db
                 IN Accept([c EXCEPT !.artworks[art].is_listed = TRUE,
                                     !.artworks[art].price = price,
                                     !.artworks[art].listing_type = "fixed"])
        ELSE IF listing_type # "auction" THEN Reject(db)
        ELSE IF price <= 0 THEN Reject(db)
        ELSE IF reserve_price # NULL /\ reserve_price < price THEN Reject(db)
        ELSE
            LET c == IF open_auction # NULL THEN cancel_auction(db, open_auction) ELSE db
                row == [artwork_id |-> art, seller_id |-> u, start_price |-> price,
                        reserve_price |-> reserve_price, expired |-> FALSE,
                        status |-> "open", winner_id |-> NULL]
                d == IF existing_auction # NULL
                     THEN [c EXCEPT !.auctions =
                              [a \in DOMAIN @ |-> IF @[a].artwork_id = art THEN row ELSE @[a]]]
                     ELSE [c EXCEPT !.auctions = Append(@, row)]
            IN Accept([d EXCEPT !.artworks[art].is_listed = TRUE,
                                !.artworks[art].listing_type = "auction",
                                !.artworks[art].price = price])

\* ---- POST /api/artworks/<id>/delist --------------------------------------------
delist_artwork(db, u, art) ==
    IF art \notin DOMAIN db.artworks THEN Reject(db)
    ELSE IF db.artworks[art].owner_id # u THEN Reject(db)
    ELSE LET open_auction == OpenAuctionOf(db, art)
             c == IF open_auction # NULL THEN cancel_auction(db, open_auction) ELSE db
         IN Accept([c EXCEPT !.artworks[art].is_listed = FALSE,
                             !.artworks[art].listing_type = "none"])

\* ---- POST /api/artworks and POST /api/auctions ---------------------------------
create_artwork(db, u, price, is_listed) ==
    Accept([db EXCEPT !.artworks =
        Append(@, [owner_id |-> u, is_listed |-> is_listed,
                   listing_type |-> "none", price |-> price])])

create_auction(db, u, start_price, reserve_price, expired) ==
    IF u \notin Sellers THEN Reject(db)
    ELSE LET art == Len(db.artworks) + 1
         IN Accept([db EXCEPT
                !.artworks = Append(@, [owner_id |-> u, is_listed |-> TRUE,
                                        listing_type |-> "none", price |-> start_price]),
                !.auctions = Append(@, [artwork_id |-> art, seller_id |-> u,
                                        start_price |-> start_price,
                                        reserve_price |-> reserve_price,
                                        expired |-> expired,
                                        status |-> "open", winner_id |-> NULL])])

\* ---- POST /api/artworks/<id>/purchase -------------------------------------------
purchase_artwork(db, u, art) ==
    IF art \notin DOMAIN db.artworks THEN Reject(db)
    ELSE IF ~db.artworks[art].is_listed THEN Reject(db)
    ELSE IF db.artworks[art].owner_id = u THEN Reject(db)
    ELSE IF OpenAuctionOf(db, art) # NULL THEN Reject(db)
    ELSE
    LET price == db.artworks[art].price
        owner == db.artworks[art].owner_id
        platform_fee == PlatformFee(price)
        seller_receives == price - platform_fee
    IN  IF db.balances[u].available_balance < price THEN Reject(db)
        ELSE Accept([db EXCEPT
                !.balances = [@ EXCEPT ![u].available_balance = @ - price,
                                       ![owner].available_balance = @ + seller_receives],
                !.fees = @ + platform_fee,
                !.transactions =
                    Append(Append(@, Txn(u, "purchase", price, "completed", art)),
                           Txn(owner, "sale", seller_receives, "completed", art)),
                !.artworks[art].owner_id = u,
                !.artworks[art].is_listed = FALSE])

\* ---- POST /api/deposits, POST /api/withdrawals ---------------------------------
\* The same handler without the amount check, crediting whatever it is sent.
deposit_unvalidated(db, u, amount) ==
    Accept([db EXCEPT
        !.balances[u].available_balance = @ + amount,
        !.transactions = Append(@, Txn(u, "deposit", amount, "completed", NULL))])

deposit(db, u, amount) ==
    IF amount <= 0 THEN Reject(db)
    ELSE Accept([db EXCEPT
            !.balances[u].available_balance = @ + amount,
            !.transactions = Append(@, Txn(u, "deposit", amount, "completed", NULL))])

\* a withdrawal checked against everything the user has, held funds included
withdraw_from_total(db, u, amount) ==
    IF amount <= 0 THEN Reject(db)
    ELSE IF db.balances[u].available_balance + db.balances[u].pending_balance < amount
         THEN Reject(db)
    ELSE Accept([db EXCEPT
            !.balances[u].available_balance = @ - amount,
            !.transactions = Append(@, Txn(u, "withdrawal", amount, "completed", NULL))])

withdraw(db, u, amount) ==
    IF amount <= 0 THEN Reject(db)
    ELSE IF db.balances[u].available_balance < amount THEN Reject(db)
    ELSE Accept([db EXCEPT
            !.balances[u].available_balance = @ - amount,
            !.transactions = Append(@, Txn(u, "withdrawal", amount, "completed", NULL))])

\* a balance check that also turns away a bid equal to the balance
insufficient_balance_or_equal(available, needed) == available <= needed

\* a handler that never looks at the balance
insufficient_balance_unchecked(available, needed) == FALSE

\* if available < bid_value / additional / difference: "Insufficient balance"
insufficient_balance(available, needed) == available < needed

\* a raise that holds the whole new amount again
additional_whole_amount(bid_value, existing_amount) == bid_value

\* additional = bid_value - existing_bid["amount"]
additional(bid_value, existing_amount) == bid_value - existing_amount

\* ---- POST /api/artworks/<id>/bids (and the legacy POST /api/auctions/<id>/bids) --
\* What the handler reads before its first write: the open auction of the
\* artwork with its computed current_bid, the bidder's active bid and, on the
\* new-bid path, the bidder's available balance.  NoSnapshot is what it holds
\* when it found no open auction for the artwork.
NoSnapshot ==
    [auction |-> NULL, expired |-> FALSE, seller_id |-> NULL, min_bid |-> NULL,
     existing_bid |-> NULL, existing_amount |-> NULL, available |-> NULL]

\* The SELECTs of the handler, each one in autocommit mode.
place_bid_read(db, u, art) ==
    LET a == OpenAuctionOf(db, art)
    IN  IF a = NULL
        THEN NoSnapshot
        ELSE LET mine == ActiveBidsOf(db, a, u)
                 existing == IF mine = {} THEN NULL
                             ELSE CHOOSE i \in mine : \A j \in mine : i <= j
             IN [auction |-> a,
                 expired |-> db.auctions[a].expired,
                 seller_id |-> db.auctions[a].seller_id,
                 min_bid |-> IF current_bid(db, a) # NULL THEN current_bid(db, a)
                             ELSE db.auctions[a].start_price,
                 existing_bid |-> existing,
                 existing_amount |-> IF existing = NULL THEN NULL ELSE db.bids[existing].amount,
                 \* the new-bid branch reads the balance before its first write; the
                 \* raise branch reads it after its first UPDATE (place_bid_write)
                 available |-> IF existing = NULL THEN db.balances[u].available_balance
                               ELSE NULL]

\* The returns that the values read decide: no open auction, auction ended, own
\* auction, a raise that is not higher, a new bid the balance does not cover
\* or that does not exceed the minimum.  Nothing the handler wrote is committed.
place_bid_returns_early(u, amount, snap) ==
    \/ snap.auction = NULL
    \/ snap.expired
    \/ snap.seller_id = u
    \/ snap.existing_bid # NULL /\ additional(amount, snap.existing_amount) <= 0
    \/ snap.existing_bid = NULL /\ (\/ insufficient_balance(snap.available, amount)
                                    \/ amount <= snap.min_bid)

\* The checks and the write transaction of the handler, on what it read.
place_bid_write(db, u, art, amount, snap) ==
    IF snap.auction = NULL THEN Reject(db)
    ELSE IF snap.expired THEN Reject(db)
    ELSE IF snap.seller_id = u THEN Reject(db)
    ELSE
    LET a == snap.auction
    IN  IF snap.existing_bid # NULL
        THEN
            LET add == additional(amount, snap.existing_amount)
                \* safety check: deactivate the bidder's other active bids
                others == [i \in DOMAIN db.bids |->
                            IF /\ db.bids[i].auction_id = a /\ db.bids[i].bidder_id = u
                               /\ i # snap.existing_bid
                            THEN [db.bids[i] EXCEPT !.is_active = FALSE] ELSE db.bids[i]]
            IN  IF add <= 0 THEN Reject(db)
                ELSE IF insufficient_balance(db.balances[u].available_balance, add)
                     THEN Reject(db)
                ELSE Accept([db EXCEPT
                        !.balances[u] =
                            [available_balance |-> @.available_balance - add,
                             pending_balance |-> @.pending_balance + add],
                        !.bids = [others EXCEPT ![snap.existing_bid].amount = amount],
                        !.transactions =
                            Append(@, Txn(u, "bid_increase", add, "pending", art))])
        ELSE
            IF insufficient_balance(snap.available, amount) THEN Reject(db)
            ELSE IF amount <= snap.min_bid THEN Reject(db)
            ELSE Accept([db EXCEPT
                    !.balances[u] =
                        [available_balance |-> @.available_balance - amount,
                         pending_balance |-> @.pending_balance + amount],
                    \* safety check: deactivate any active bid of the bidder, then insert
                    !.bids = Append(DeactivateBidsOf(@, a, u),
                                    [auction_id |-> a, bidder_id |-> u,
                                     amount |-> amount, is_active |-> TRUE]),
                    !.transactions = Append(@, Txn(u, "bid", amount, "pending", art))])

place_bid_on_artwork(db, u, art, amount) ==
    place_bid_write(db, u, art, amount, place_bid_read(db, u, art))

\* (SELECT b.bidder_id ... WHERE b.is_active = 1 ORDER BY b.amount DESC LIMIT 1) AS
\* highest_bidder_id, read with the auction before any write: the bidders the
\* subquery may return (NULL when the auction has no active bid).
highest_bidder_id(db, a) ==
    {IF i = NULL THEN NULL ELSE db.bids[i].bidder_id : i \in find_winning_bid(db, a)}

\* The users an accepted bid request may send "You've been outbid" to:
\* if auction["highest_bidder_id"] and auction["highest_bidder_id"] != session["user_id"]
outbid_notification(db, u, art) ==
    LET a == OpenAuctionOf(db, art)
    IN  IF a = NULL THEN {}
        ELSE {h \in highest_bidder_id(db, a) : h # NULL /\ h # u}

\* ---- PUT /api/bids/<id> ----------------------------------------------------------
update_bid(db, u, bid_id, new_amount) ==
    IF bid_id \notin DOMAIN db.bids THEN Reject(db)
    ELSE IF db.bids[bid_id].bidder_id # u \/ ~db.bids[bid_id].is_active THEN Reject(db)
    ELSE IF db.auctions[db.bids[bid_id].auction_id].status # "open" THEN Reject(db)
    ELSE IF new_amount <= 0 THEN Reject(db)
    ELSE
    LET a == db.bids[bid_id].auction_id
        difference == new_amount - db.bids[bid_id].amount
        available == db.balances[u].available_balance
        pending == db.balances[u].pending_balance
        abs_difference == IF difference >= 0 THEN difference ELSE 0 - difference
    IN  IF difference > 0 /\ insufficient_balance(available, difference) THEN Reject(db)
        ELSE Accept([db EXCEPT
                !.balances[u] = [available_balance |-> available - difference,
                                 pending_balance |-> pending + difference],
                !.bids[bid_id].amount = new_amount,
                !.transactions =
                    Append(@, Txn(u,
                                  IF difference > 0 THEN "bid_increase" ELSE "bid_decrease",
                                  abs_difference,
                                  IF difference > 0 THEN "pending" ELSE "completed",
                                  db.auctions[a].artwork_id))])

\* ---- POST /api/bids/<id>/cancel --------------------------------------------------
cancel_bid(db, u, bid_id) ==
    IF bid_id \notin DOMAIN db.bids THEN Reject(db)
    ELSE IF db.bids[bid_id].bidder_id # u \/ ~db.bids[bid_id].is_active THEN Reject(db)
    ELSE IF db.auctions[db.bids[bid_id].auction_id].status # "open" THEN Reject(db)
    ELSE
    LET a == db.bids[bid_id].auction_id
        art == db.auctions[a].artwork_id
        amount == db.bids[bid_id].amount
    IN  Accept([db EXCEPT
            !.bids[bid_id].is_active = FALSE,
            !.balances[u] = [available_balance |-> @.available_balance + amount,
                             pending_balance |-> @.pending_balance - amount],
            !.transactions =
                Append(FlipPending(@, u, art, "cancelled"),
                       Txn(u, "bid_refund", amount, "completed", art))])

\* ---- POST /api/auctions/<id>/close ----------------------------------------------
\* WHERE au.id = ? AND au.seller_id = ?: no look at the auction's status
close_auction(db, u, a, wb) ==
    IF a \notin DOMAIN db.auctions THEN Reject(db)
    ELSE IF db.auctions[a].seller_id # u THEN Reject(db)
    ELSE Accept(app_process_ended_auction(db, a, wb))

\* an except branch that only logs
rollback_skipped(committed, db) == db

\* connection.rollback(): the open transaction's writes are undone
rollback(committed, db) == committed

\* the handler when the settlement raises: except: g.db.rollback(); return 400
close_auction_raising(db, u, a, wb) ==
    IF a \notin DOMAIN db.auctions THEN Reject(db)
    ELSE IF db.auctions[a].seller_id # u THEN Reject(db)
    ELSE Reject(rollback(db, app_process_ended_auction(db, a, wb)))

\* ---- the batches: POST /api/auctions/process-ended and the scheduler job ---------
\* committed: the database as of the last commit; db: with the writes of the
\* connection's open transaction; order: the ended auctions in the order the
\* query returned them; pick[a]: the row find_winning_bid returns for auction
\* a; failing: the auctions whose settlement raises an exception.
\* except Exception: g.db.rollback(); continue -- the rollback ends the open
\* transaction of the connection, which began at the first write of the loop.
\* The result is what the g.db.commit() after the loop commits.
\* A settlement that raises has run some of its statements; here all of them,
\* the last one raising.
RECURSIVE process_ended_auctions(_, _, _, _, _)
process_ended_auctions(committed, db, order, pick, failing) ==
    IF order = <<>> THEN db
    ELSE IF Head(order) \in failing
    THEN process_ended_auctions(committed,
            rollback(committed, app_process_ended_auction(db, Head(order), pick[Head(order)])),
            Tail(order), pick, failing)
    ELSE process_ended_auctions(committed,
            app_process_ended_auction(db, Head(order), pick[Head(order)]),
            Tail(order), pick, failing)

RECURSIVE process_ended_auctions_job(_, _, _, _, _)
process_ended_auctions_job(committed, db, order, pick, failing) ==
    IF order = <<>> THEN db
    ELSE IF Head(order) \in failing
    THEN process_ended_auctions_job(committed,
            rollback(committed,
                     AuctionService_process_ended_auction(db, Head(order), pick[Head(order)])),
            Tail(order), pick, failing)
    ELSE process_ended_auctions_job(committed,
            AuctionService_process_ended_auction(db, Head(order), pick[Head(order)]),
            Tail(order), pick, failing)

\* the orders in which a query without ORDER BY may return the set S of rows
Orders(S) ==
    {s \in [1 .. Cardinality(S) -> S] : \A i, j \in DOMAIN s : i # j => s[i] # s[j]}

\* the choices of a winning row for each auction of S
Picks(db, S) ==
    {p \in [S -> {NULL} \cup DOMAIN db.bids] : \A a \in S : p[a] \in find_winning_bid(db, a)}

\* ---- the state machine ------------------------------------------------------------
\* the workers that serve bid requests side by side
Workers == 1 .. MaxRequests

\* a worker that serves no bid request
Idle ==
    [pc |-> "idle", user |-> NULL, art |-> NULL, amount |-> NULL, snap |-> NoSnapshot,
     ended |-> {}]

\* A seeded database: every registered user has a balance row with funds
\* available and nothing pending; no artwork, auction, bid or transaction yet.
SeededDatabase ==
    /\ artworks = <<>>
    /\ auctions = <<>>
    /\ bids = <<>>
    /\ balances = [u \in Users |->
                      [available_balance |-> 40 * MaxAmount, pending_balance |-> 0]]
    /\ transactions = <<>>
    /\ fees = 0
    /\ op = [name |-> "init", user |-> NULL, art |-> NULL, target |-> {},
             amount |-> NULL, ok |-> TRUE]
    /\ requests = [w \in Workers |-> Idle]

\* no settlement is bound to raise
NoFaults == [raising |-> {}, scan |-> <<>>]

Init ==
    /\ SeededDatabase
    /\ faults = NoFaults

Request(name, u, art, target, amount, ok) ==
    [name |-> name, user |-> u, art |-> art, target |-> target, amount |-> amount, ok |-> ok]

\* Commit the handler's result r and record the request; the table sizes are
\* bounded.  A rejected request returns without a commit and leaves the
\* database as it was: it is a stuttering step.
CommitWithin(r, request, maxArtworks, maxBids, maxTransactions) ==
    /\ r.ok
    /\ Len(r.db.artworks) <= maxArtworks
    /\ Len(r.db.bids) <= maxBids
    /\ Len(r.db.transactions) <= maxTransactions
    /\ artworks' = r.db.artworks
    /\ auctions' = r.db.auctions
    /\ bids' = r.db.bids
    /\ balances' = r.db.balances
    /\ transactions' = r.db.transactions
    /\ fees' = r.db.fees
    /\ op' = request
    /\ UNCHANGED faults

CommitDB(r, request) == CommitWithin(r, request, MaxArtworks, MaxBids, MaxTransactions)

\* a request served from its first read to its commit with no other request between
Commit(r, request) ==
    /\ CommitDB(r, request)
    /\ UNCHANGED requests

AuctionSet(a) == IF a = NULL THEN {} ELSE {a}

CreateArtwork ==
    \E u \in Sellers :
        LET price == NULL
            is_listed == FALSE
            r == create_artwork(DB, u, price, is_listed)
        IN Commit(r, Request("create_artwork", u, Len(artworks) + 1, {}, price, r.ok))

CreateAuction ==
    \E u \in Users, start_price \in StartPrices, reserve_price \in ReservePrices :
        LET r == create_auction(DB, u, start_price, reserve_price, FALSE)
        IN Commit(r, Request("create_auction", u, Len(artworks) + 1,
                             IF r.ok THEN {Len(auctions) + 1} ELSE {}, start_price, r.ok))

ListArtwork ==
    \E u \in Users, art \in DOMAIN artworks, listing_type \in {"fixed", "auction"},
       price \in StartPrices \cup FixedPrices, reserve_price \in ReservePrices :
        LET r == list_artwork(DB, u, art, listing_type, price, reserve_price)
        IN /\ listing_type = "fixed" => (reserve_price = NULL /\ price \in FixedPrices)
           /\ listing_type = "auction" => price \in StartPrices
           /\ Commit(r, Request("list_" \o listing_type, u, art,
                                AuctionSet(AuctionOf(DB, art)), price, r.ok))

DelistArtwork ==
    \E u \in Users, art \in DOMAIN artworks :
        LET r == delist_artwork(DB, u, art)
        IN Commit(r, Request("delist", u, art, AuctionSet(OpenAuctionOf(DB, art)), NULL, r.ok))

PurchaseArtwork ==
    \E u \in Users, art \in DOMAIN artworks :
        LET r == purchase_artwork(DB, u, art)
        IN Commit(r, Request("purchase", u, art, {}, artworks[art].price, r.ok))

PlaceBid ==
    \E u \in Users, art \in DOMAIN artworks, amount \in Amounts :
        LET r == place_bid_on_artwork(DB, u, art, amount)
        IN Commit(r, Request("place_bid", u, art, AuctionSet(OpenAuctionOf(DB, art)),
                             amount, r.ok))

UpdateBid ==
    \E u \in Users, bid_id \in DOMAIN bids, new_amount \in Amounts :
        LET r == update_bid(DB, u, bid_id, new_amount)
        IN Commit(r, Request("update_bid", u, auctions[bids[bid_id].auction_id].artwork_id,
                             {bids[bid_id].auction_id}, new_amount, r.ok))

CancelBid ==
    \E u \in Users, bid_id \in DOMAIN bids :
        LET r == cancel_bid(DB, u, bid_id)
        IN Commit(r, Request("cancel_bid", u, auctions[bids[bid_id].auction_id].artwork_id,
                             {bids[bid_id].auction_id}, bids[bid_id].amount, r.ok))

CloseAuction ==
    \E u \in Users, a \in DOMAIN auctions :
        \E wb \in find_winning_bid(DB, a) :
            LET r == close_auction(DB, u, a, wb)
            IN Commit(r, Request("close", u, auctions[a].artwork_id, {a}, NULL, r.ok))

ProcessEnded ==
    LET ended == EndedAuctions(DB)
    IN \E order \in Orders(ended), pick \in Picks(DB, ended) :
          \* no statement of the batch raises
          Commit(Accept(process_ended_auctions(DB, DB, order, pick, {})),
                 Request("process_ended", NULL, NULL, ended, NULL, TRUE))

SchedulerJob ==
    LET ended == EndedAuctions(DB)
    IN \E order \in Orders(ended), pick \in Picks(DB, ended) :
          Commit(Accept(process_ended_auctions_job(DB, DB, order, pick, {})),
                 Request("scheduler", NULL, NULL, ended, NULL, TRUE))

\* the deposits and withdrawals made so far (bounded by MaxCashOps)
CashOps ==
    Cardinality({i \in DOMAIN transactions : transactions[i].type \in {"deposit", "withdrawal"}})

Deposit ==
    \E u \in CashUsers, amount \in CashAmounts :
        LET r == deposit(DB, u, amount)
        IN /\ CashOps < MaxCashOps
           /\ Commit(r, Request("deposit", u, NULL, {}, amount, r.ok))

Withdraw ==
    \E u \in CashUsers, amount \in CashAmounts :
        LET r == withdraw(DB, u, amount)
        IN /\ CashOps < MaxCashOps
           /\ Commit(r, Request("withdraw", u, NULL, {}, amount, r.ok))

\* now reaches the end_time of an open auction
PassTime ==
    \E a \in DOMAIN auctions :
        /\ auctions[a].status = "open" /\ ~auctions[a].expired
        /\ auctions' = [auctions EXCEPT ![a].expired = TRUE]
        /\ op' = Request("time", NULL, auctions[a].artwork_id, {a}, NULL, TRUE)
        /\ UNCHANGED <<artworks, bids, balances, transactions, fees, requests, faults>>

\* A bid request runs its SELECTs (each in autocommit) and keeps what it read.
\* A request that returns on what it read commits nothing and is not recorded.
BidRead ==
    \E w \in Workers, u \in Users, art \in DOMAIN artworks, amount \in Amounts :
        LET snap == place_bid_read(DB, u, art)
        IN  /\ requests[w].pc = "idle"
            /\ \A v \in Workers : v < w => requests[v].pc # "idle"
            /\ ~place_bid_returns_early(u, amount, snap)
            /\ requests' = [requests EXCEPT ![w] =
                   [pc |-> "write", user |-> u, art |-> art, amount |-> amount, snap |-> snap,
                    ended |-> {}]]
            /\ UNCHANGED <<artworks, auctions, bids, balances, transactions, fees, op, faults>>

\* The request's write transaction runs against the database as it is now, with
\* the values the request read before; SQLite admits one writer at a time.
BidWrite ==
    \E w \in Workers :
        LET q == requests[w]
            r == place_bid_write(DB, q.user, q.art, q.amount, q.snap)
            request == Request("place_bid", q.user, q.art, {q.snap.auction}, q.amount, r.ok)
        IN  /\ q.pc = "write"
            /\ requests' = [requests EXCEPT ![w] = Idle]
            /\ IF r.ok
               THEN CommitDB(r, request)
               ELSE /\ op' = request
                    /\ UNCHANGED <<artworks, auctions, bids, balances, transactions, fees, faults>>

Next ==
    \/ CreateArtwork
    \/ CreateAuction
    \/ ListArtwork
    \/ DelistArtwork
    \/ PurchaseArtwork
    \/ PlaceBid
    \/ UpdateBid
    \/ CancelBid
    \/ CloseAuction
    \/ ProcessEnded
    \/ SchedulerJob
    \/ Deposit
    \/ Withdraw
    \/ PassTime

Spec == Init /\ [][Next]_vars

\* The same requests with bid requests served by several workers at once: the
\* reads of one bid request and its write transaction are separate steps.
NextConcurrent ==
    \/ CreateAuction
    \/ ListArtwork
    \/ BidRead
    \/ BidWrite
    \/ CancelBid
    \/ CloseAuction
    \/ PassTime

SpecConcurrent == Init /\ [][NextConcurrent]_vars

\* ---- settlements served side by side ---------------------------------------------
\* A batch (the route or the scheduler job, which has a connection of its own)
\* runs its SELECT of the ended auctions and keeps the rows.
SettleRead ==
    \E w \in Workers, name \in {"process_ended", "scheduler"} :
        /\ requests[w].pc = "idle"
        /\ \A v \in Workers : v < w => requests[v].pc # "idle"
        /\ EndedAuctions(DB) # {}
        /\ requests' = [requests EXCEPT ![w] =
               [Idle EXCEPT !.pc = name, !.ended = EndedAuctions(DB)]]
        /\ UNCHANGED <<artworks, auctions, bids, balances, transactions, fees, op, faults>>

\* close_auction runs its SELECT: WHERE au.id = ? AND au.seller_id = ?
CloseRead ==
    \E w \in Workers, u \in Users, a \in DOMAIN auctions :
        /\ requests[w].pc = "idle"
        /\ \A v \in Workers : v < w => requests[v].pc # "idle"
        /\ auctions[a].seller_id = u
        /\ requests' = [requests EXCEPT ![w] =
               [Idle EXCEPT !.pc = "close", !.user = u, !.art = auctions[a].artwork_id,
                            !.ended = {a}]]
        /\ UNCHANGED <<artworks, auctions, bids, balances, transactions, fees, op, faults>>

\* The settlements of the rows the request read, run against the database as
\* it is now, and the commit; SQLite admits one writer at a time.
SettleWrite ==
    \E w \in Workers :
        LET q == requests[w]
        IN  /\ q.pc \in {"process_ended", "scheduler", "close"}
            /\ requests' = [requests EXCEPT ![w] = Idle]
            /\ \E order \in Orders(q.ended), pick \in Picks(DB, q.ended) :
                  LET db == CASE q.pc = "process_ended" ->
                                    process_ended_auctions(DB, DB, order, pick, {})
                              [] q.pc = "scheduler" ->
                                    process_ended_auctions_job(DB, DB, order, pick, {})
                              [] q.pc = "close" ->
                                    app_process_ended_auction(DB, order[1], pick[order[1]])
                  IN CommitDB(Accept(db), Request(q.pc, q.user, q.art, q.ended, NULL, TRUE))

NextSettle ==
    \/ CreateAuction
    \/ PlaceBid
    \/ PassTime
    \/ SettleRead
    \/ CloseRead
    \/ SettleWrite

SpecSettle == Init /\ [][NextSettle]_vars

\* ---- the batches over several auctions -------------------------------------------
\* Auctions of several artworks, bids, expiry, and the two batches; in a batch
\* the settlement of any of the ended auctions may raise an exception.
CommitBatch(r, request) ==
    /\ CommitWithin(r, request, MaxBatchArtworks, MaxBatchBids, MaxBatchTransactions)
    /\ UNCHANGED requests

BatchCreateAuction ==
    \E u \in Sellers, start_price \in StartPrices :
        LET r == create_auction(DB, u, start_price, NULL, FALSE)
        IN CommitBatch(r, Request("create_auction", u, Len(artworks) + 1,
                                  {Len(auctions) + 1}, start_price, r.ok))

BatchPlaceBid ==
    \E u \in Users, art \in DOMAIN artworks, amount \in Amounts :
        LET r == place_bid_on_artwork(DB, u, art, amount)
        IN CommitBatch(r, Request("place_bid", u, art, AuctionSet(OpenAuctionOf(DB, art)),
                                  amount, r.ok))

BatchProcessEnded ==
    LET ended == EndedAuctions(DB)
    IN \E order \in Orders(ended), pick \in Picks(DB, ended), failing \in SUBSET ended :
          CommitBatch(Accept(process_ended_auctions(DB, DB, order, pick, failing)),
                      Request("process_ended", NULL, NULL, ended, NULL, TRUE))

BatchSchedulerJob ==
    LET ended == EndedAuctions(DB)
    IN \E order \in Orders(ended), pick \in Picks(DB, ended), failing \in SUBSET ended :
          CommitBatch(Accept(process_ended_auctions_job(DB, DB, order, pick, failing)),
                      Request("scheduler", NULL, NULL, ended, NULL, TRUE))

NextBatch ==
    \/ BatchCreateAuction
    \/ BatchPlaceBid
    \/ PassTime
    \/ BatchProcessEnded
    \/ BatchSchedulerJob

SpecBatch == Init /\ [][NextBatch]_vars

\* ---- the scheduler under a lasting fault -----------------------------------------
\* The same auctions, bids and expiry, with a scheduler that ticks again and
\* again.  Which settlements raise, and the order in which the query without
\* ORDER BY returns the rows, do not change from one tick to the next.
AuctionIds == 1 .. MaxBatchArtworks

InitLive ==
    /\ SeededDatabase
    /\ faults \in [raising : SUBSET AuctionIds, scan : Orders(AuctionIds)]

\* the rows of S in the order of the scan
ScanOrder(S, scan) == SelectSeq(scan, LAMBDA a : a \in S)

\* One tick of the background scheduler: IntervalTrigger fires the job, which
\* reads the ended auctions, settles them one by one and commits once.
SchedulerTick ==
    LET ended == EndedAuctions(DB)
    IN \E pick \in Picks(DB, ended) :
          CommitBatch(Accept(process_ended_auctions_job(DB, DB,
                                 ScanOrder(ended, faults.scan), pick,
                                 faults.raising \cap ended)),
                      Request("scheduler", NULL, NULL, ended, NULL, TRUE))

\* the bids of this specification
LivePlaceBid ==
    /\ Len(bids) < MaxLiveBids
    /\ BatchPlaceBid

NextLive ==
    \/ BatchCreateAuction
    \/ LivePlaceBid
    \/ PassTime
    \/ SchedulerTick

\* the interval trigger keeps firing the job
SpecLive == InitLive /\ [][NextLive]_vars /\ WF_vars(SchedulerTick)

\* ---- vocabulary of the properties ---------------------------------------------------
\* the requests that run a settlement
SettlementNames == {"close", "process_ended", "scheduler"}

\* sum over all users of available_balance + pending_balance
TotalBalances ==
    SumOver(Users, [u \in Users |->
        balances[u].available_balance + balances[u].pending_balance])

\* deposits minus withdrawals, as the transaction log records them
NetCash ==
    SumOver(DOMAIN transactions, [i \in DOMAIN transactions |->
        IF transactions[i].type = "deposit" THEN transactions[i].amount
        ELSE IF transactions[i].type = "withdrawal" THEN 0 - transactions[i].amount
        ELSE 0])

InitialTotal == NumUsers * 40 * MaxAmount

\* ---- C1 ---------------------------------------------------------------------------------
\* C1: money conservation.  In every reachable state the sum over all users of
\* available_balance + pending_balance plus the platform fees extracted equals
\* the initial sum, deposits and withdrawals set aside.
C1_MoneyConservation ==
    TotalBalances + fees = InitialTotal + NetCash

\* ---- C2 ---------------------------------------------------------------------------------
\* C2: settlement idempotence.  A settlement request that reaches an auction
\* whose status is already closed leaves the auction's status and winner, the
\* artwork's owner, every balance, every bid and every transaction as they were.
C2_SettlementIdempotent ==
    [][\A a \in DOMAIN auctions :
          (/\ op'.name \in SettlementNames
           /\ a \in op'.target
           /\ auctions[a].status = "closed")
          => /\ auctions'[a].status = auctions[a].status
             /\ auctions'[a].winner_id = auctions[a].winner_id
             /\ artworks'[auctions[a].artwork_id].owner_id =
                    artworks[auctions[a].artwork_id].owner_id
             /\ UNCHANGED <<balances, bids, transactions>>]_vars

\* ---- C3 ---------------------------------------------------------------------------------
\* C3: successful sale.  When a settlement of one open auction finds a highest active
\* bid of amount X that meets the reserve, the auction is closed with one of the
\* highest bidders W as winner, W's pending_balance falls by X and W's
\* available_balance is unchanged, the seller's available_balance rises by
\* X - fee, and every other active bidder gets the full bid amount moved from
\* pending_balance to available_balance.
SuccessfulSaleEffect(a) ==
    LET X == current_bid(DB, a)
        W == auctions'[a].winner_id
        seller == auctions[a].seller_id
    IN  /\ auctions'[a].status = "closed"
        /\ \E i \in find_winning_bid(DB, a) : bids[i].bidder_id = W
        /\ balances'[W].pending_balance = balances[W].pending_balance - X
        /\ W # seller => balances'[W].available_balance = balances[W].available_balance
        /\ W # seller =>
              balances'[seller].available_balance =
                  balances[seller].available_balance + X - PlatformFee(X)
        /\ \A u \in ActiveBidders(DB, a) \ {W, seller} :
              /\ balances'[u].available_balance =
                    balances[u].available_balance + TotalAmount(DB, a, u)
              /\ balances'[u].pending_balance =
                    balances[u].pending_balance - TotalAmount(DB, a, u)

C3_SuccessfulSale ==
    [][\A a \in DOMAIN auctions :
          (/\ op'.name \in SettlementNames
           /\ op'.target = {a}
           /\ auctions[a].status = "open"
           /\ current_bid(DB, a) # NULL
           /\ (auctions[a].reserve_price = NULL
                \/ auctions[a].reserve_price <= current_bid(DB, a)))
          => SuccessfulSaleEffect(a)]_vars

\* ---- C4 ---------------------------------------------------------------------------------
\* C4: reserve enforcement.  When a settlement of one open auction finds the highest
\* active bid below the reserve price, the auction is closed with no winner, the
\* artwork keeps its owner and is unlisted, and every active bidder has the full
\* bid amount moved from pending_balance to available_balance and no active bid.
ReserveNotMetEffect(a) ==
    LET art == auctions[a].artwork_id
    IN  /\ auctions'[a].status = "closed"
        /\ auctions'[a].winner_id = NULL
        /\ artworks'[art].owner_id = artworks[art].owner_id
        /\ ~artworks'[art].is_listed
        /\ \A i \in DOMAIN bids' : bids'[i].auction_id = a => ~bids'[i].is_active
        /\ \A u \in ActiveBidders(DB, a) :
              /\ balances'[u].available_balance =
                    balances[u].available_balance + TotalAmount(DB, a, u)
              /\ balances'[u].pending_balance =
                    balances[u].pending_balance - TotalAmount(DB, a, u)

C4_ReserveEnforcement ==
    [][\A a \in DOMAIN auctions :
          (/\ op'.name \in SettlementNames
           /\ op'.target = {a}
           /\ auctions[a].status = "open"
           /\ auctions[a].reserve_price # NULL
           /\ current_bid(DB, a) # NULL
           /\ current_bid(DB, a) < auctions[a].reserve_price)
          => ReserveNotMetEffect(a)]_vars

\* ---- C5 ---------------------------------------------------------------------------------
\* C5: in every reachable state, a bidder has at most one active bid on an
\* auction, also when bid requests of one bidder on one auction interleave.
C5_OneActiveBid ==
    \A a \in DOMAIN auctions, u \in Users : Cardinality(ActiveBidsOf(DB, a, u)) <= 1

\* two bid requests of one bidder both read before either wrote, and both have
\* written: two 'bid' rows of the bidder on the auction, and nothing else logged
C5_Witness ==
    /\ op.name = "place_bid"
    /\ \A w \in Workers : requests[w].pc = "idle"
    /\ Len(bids) = 2
    /\ bids[1].auction_id = bids[2].auction_id
    /\ bids[1].bidder_id = bids[2].bidder_id
    /\ bids[2].is_active
    /\ Len(transactions) = 2
    /\ \A i \in DOMAIN transactions :
          transactions[i].type = "bid" /\ transactions[i].user_id = bids[1].bidder_id

\* ---- C6 ---------------------------------------------------------------------------------
\* C6: monotonic raise.  In every step the amount of a bid that is active before
\* and after the step does not decrease.
C6_MonotonicRaise ==
    [][\A i \in DOMAIN bids :
          (bids[i].is_active /\ bids'[i].is_active) => bids'[i].amount >= bids[i].amount]_vars

\* ---- C7 ---------------------------------------------------------------------------------
\* C7: one-way status.  In every step an auction that is closed or cancelled
\* keeps its status.
C7_StatusOneWay ==
    [][\A a \in DOMAIN auctions :
          auctions[a].status \in {"closed", "cancelled"}
          => auctions'[a].status = auctions[a].status]_vars

\* ---- C8 ---------------------------------------------------------------------------------
\* C8: cancel is idempotent.  Listing at a fixed price an artwork whose auction
\* is already closed or cancelled (which invokes cancel on it) changes no
\* balance, bid or transaction and not the auction's status or winner.
C8_CancelIdempotent ==
    [][\A a \in DOMAIN auctions :
          (/\ op'.name = "list_fixed"
           /\ a \in op'.target
           /\ auctions[a].status \in {"closed", "cancelled"})
          => /\ UNCHANGED <<balances, bids, transactions>>
             /\ auctions'[a].status = auctions[a].status
             /\ auctions'[a].winner_id = auctions[a].winner_id]_vars

\* ---- C9 ---------------------------------------------------------------------------------
\* C9: cancellation.  Delisting, or listing at a fixed price, an artwork whose
\* auction is open moves every active bidder's full bid amount on it from
\* pending_balance to available_balance, deactivates all its bids, leaves it
\* cancelled with no winner and leaves the artwork's owner unchanged.
CancellationEffect(a) ==
    LET art == auctions[a].artwork_id
    IN  /\ auctions'[a].status = "cancelled"
        /\ auctions'[a].winner_id = NULL
        /\ artworks'[art].owner_id = artworks[art].owner_id
        /\ \A i \in DOMAIN bids' : bids'[i].auction_id = a => ~bids'[i].is_active
        /\ \A u \in ActiveBidders(DB, a) :
              /\ balances'[u].available_balance =
                    balances[u].available_balance + TotalAmount(DB, a, u)
              /\ balances'[u].pending_balance =
                    balances[u].pending_balance - TotalAmount(DB, a, u)

C9_Cancellation ==
    [][\A a \in DOMAIN auctions :
          (/\ op'.name \in {"delist", "list_fixed"}
           /\ a \in op'.target
           /\ auctions[a].status = "open")
          => CancellationEffect(a)]_vars

\* ---- C10 --------------------------------------------------------------------------------
\* C10: no-bid settlement.  A settlement of an auction without an active bid
\* closes it with no winner, unlists the artwork and keeps its owner, changes
\* no balance and appends no transaction.
C10_NoBidSettlement ==
    [][\A a \in DOMAIN auctions :
          (/\ op'.name \in SettlementNames
           /\ op'.target = {a}
           /\ ActiveBids(DB, a) = {})
          => /\ auctions'[a].status = "closed"
             /\ auctions'[a].winner_id = NULL
             /\ ~artworks'[auctions[a].artwork_id].is_listed
             /\ artworks'[auctions[a].artwork_id].owner_id =
                    artworks[auctions[a].artwork_id].owner_id
             /\ UNCHANGED <<balances, transactions>>]_vars

\* a settlement has closed, without a winner, an auction nobody ever bid on
C10_Witness ==
    /\ op.name \in {"scheduler", "process_ended"}
    /\ \E a \in op.target :
          /\ auctions[a].status = "closed"
          /\ auctions[a].winner_id = NULL
          /\ \A i \in DOMAIN bids : bids[i].auction_id # a
\* ---- C11 --------------------------------------------------------------------------------
\* C11: a raise holds only the delta.  When a bidder whose active bid on an
\* auction is A raises it to B > A (POST bid or PUT /api/bids/<id>), the bidder
\* then has exactly one active bid on the auction, of amount B, pending_balance
\* has grown by B - A and available_balance has shrunk by B - A.
C11_RaiseHoldsDelta ==
    [][\A a \in DOMAIN auctions, u \in Users :
          (/\ op'.name \in {"place_bid", "update_bid"}
           /\ op'.user = u
           /\ op'.target = {a}
           /\ ActiveBidsOf(DB, a, u) # {}
           /\ op'.amount > TotalAmount(DB, a, u))
          => LET A == TotalAmount(DB, a, u)
                 B == op'.amount
                 mine == {i \in DOMAIN bids' : /\ bids'[i].auction_id = a
                                               /\ bids'[i].bidder_id = u
                                               /\ bids'[i].is_active}
             IN  /\ Cardinality(mine) = 1
                 /\ \A i \in mine : bids'[i].amount = B
                 /\ balances'[u].pending_balance = balances[u].pending_balance + (B - A)
                 /\ balances'[u].available_balance =
                        balances[u].available_balance - (B - A)]_vars

\* a bidder has raised an active bid through the POST bid endpoint
C11_Witness ==
    /\ op.name = "place_bid"
    /\ Len(transactions) >= 2
    /\ transactions[Len(transactions)].type = "bid_increase"
    /\ transactions[Len(transactions)].user_id = op.user
    /\ \E i \in DOMAIN bids :
          bids[i].bidder_id = op.user /\ bids[i].is_active /\ bids[i].amount = op.amount

\* ---- C12 --------------------------------------------------------------------------------
\* the artwork has no auction that is open and has not reached its end_time
NoLiveAuction(art) ==
    \A a \in DOMAIN auctions :
        auctions[a].artwork_id = art => (auctions[a].status # "open" \/ auctions[a].expired)

\* C12: a bid placement (POST bid) or a raise (PUT /api/bids/<id>) is rejected
\* and changes nothing whenever the auction is not open or the time is at or
\* past its end_time, the window before the scheduler settles it included.
C12_RejectedWhenNotOpen ==
    /\ \A u \in Users, art \in DOMAIN artworks, amount \in Amounts :
          NoLiveAuction(art) => place_bid_on_artwork(DB, u, art, amount) = Reject(DB)
    /\ \A u \in Users, i \in DOMAIN bids, amount \in Amounts :
          (\/ auctions[bids[i].auction_id].status # "open"
           \/ auctions[bids[i].auction_id].expired)
          => update_bid(DB, u, i, amount) = Reject(DB)

\* ---- C13 --------------------------------------------------------------------------------
\* C13: a bid by the auction's seller on their own auction, a new bid (POST bid)
\* or a raise (PUT /api/bids/<id>), is always rejected and changes no balance,
\* bid or transaction.
C13_SellerBidRejected ==
    /\ \A a \in DOMAIN auctions, amount \in Amounts :
          place_bid_on_artwork(DB, auctions[a].seller_id, auctions[a].artwork_id, amount)
            = Reject(DB)
    /\ \A i \in DOMAIN bids, amount \in Amounts :
          update_bid(DB, auctions[bids[i].auction_id].seller_id, i, amount) = Reject(DB)

\* ---- C14 --------------------------------------------------------------------------------
\* C14: for a bidder with no active bid on an open auction that has not ended
\* (funds sufficient, bidder not the seller) the bid is admitted if and only if
\* the amount is greater than the highest active bid when there is one, and at
\* least start_price when there is none (a first bid equal to start_price is
\* admitted).
C14_FirstBidAdmissible ==
    \A a \in DOMAIN auctions, u \in Users, amount \in Amounts \cup StartPrices :
        (/\ auctions[a].status = "open"
         /\ ~auctions[a].expired
         /\ u # auctions[a].seller_id
         /\ ActiveBidsOf(DB, a, u) = {}
         /\ balances[u].available_balance >= amount)
        => (place_bid_on_artwork(DB, u, auctions[a].artwork_id, amount).ok
              <=> IF current_bid(DB, a) # NULL
                  THEN amount > current_bid(DB, a)
                  ELSE amount >= auctions[a].start_price)

\* ---- C15 --------------------------------------------------------------------------------
\* C15: for a bidder who already has an active bid on an open auction (not
\* ended, bidder not the seller) a new amount, sent through POST bid or through
\* PUT /api/bids/<id>, is accepted if and only if it is strictly greater than
\* the bidder's own current amount and the delta is covered by
\* available_balance, whatever the highest bid of the auction is.
C15_SelfRaiseRule ==
    \A a \in DOMAIN auctions, u \in Users, amount \in Amounts :
        (/\ auctions[a].status = "open"
         /\ ~auctions[a].expired
         /\ u # auctions[a].seller_id)
        => \A i \in ActiveBidsOf(DB, a, u) :
              LET own == bids[i].amount
                  admissible == /\ amount > own
                                /\ amount - own <= balances[u].available_balance
              IN  /\ place_bid_on_artwork(DB, u, auctions[a].artwork_id, amount).ok
                        <=> admissible
                  /\ update_bid(DB, u, i, amount).ok <=> admissible

EarliestHighestBid(a) ==
    CHOOSE i \in ActiveBids(DB, a) :
        \A j \in ActiveBids(DB, a) :
            \/ bids[j].amount < bids[i].amount
            \/ bids[j].amount = bids[i].amount /\ i <= j

\* C17: when two or more active bids of an auction share the largest amount, the
\* settlement that sells the artwork chooses as winner the bidder of the one
\* with the earliest created_at.
C17_TieBreakEarliest ==
    [][\A a \in DOMAIN auctions :
          (/\ op'.name \in SettlementNames
           /\ a \in op'.target
           /\ auctions[a].status = "open"
           /\ ActiveBids(DB, a) # {}
           /\ auctions'[a].status = "closed"
           /\ auctions'[a].winner_id # NULL)
          => auctions'[a].winner_id = bids[EarliestHighestBid(a)].bidder_id]_vars

\* ---- C18 --------------------------------------------------------------------------------
\* a settlement of auction a has written its status
Settled(db, a) == db.auctions[a].status # "open"

\* C18: in one process-ended call and in one scheduler tick over the ended
\* auctions, whichever of them raise an error, every other ended auction is
\* settled and committed (those before the failing one stay settled, those
\* after it are still processed) and a failing auction is left as it was.
C18_FailureIsolation ==
    LET ended == EndedAuctions(DB)
    IN \A order \in Orders(ended), pick \in Picks(DB, ended), failing \in SUBSET ended :
          LET route == process_ended_auctions(DB, DB, order, pick, failing)
              job == process_ended_auctions_job(DB, DB, order, pick, failing)
          IN  \A a \in ended :
                 IF a \in failing
                 THEN route.auctions[a] = auctions[a] /\ job.auctions[a] = auctions[a]
                 ELSE Settled(route, a) /\ Settled(job, a)

\* ---- C19 --------------------------------------------------------------------------------
\* C19: a batch (scheduler tick or process-ended request) that settles an
\* auction of its list which a concurrent settlement has closed in the
\* meantime is a no-op: no balance, bid, transaction or fee changes, so the
\* seller is credited, the winner's pending spent and each losing bidder
\* refunded at most once.
C19_NoDoubleSettlement ==
    [][\A a \in DOMAIN auctions :
          (/\ op'.name \in {"process_ended", "scheduler"}
           /\ a \in op'.target
           /\ auctions[a].status # "open")
          => /\ balances' = balances
             /\ bids' = bids
             /\ transactions' = transactions
             /\ fees' = fees]_vars

\* ---- C20 --------------------------------------------------------------------------------
\* C20: when a bid (or raise) request and a settlement of the same auction
\* interleave, at most one of them wins: a bid request that commits a hold and
\* an active bid does so on an auction that is open at its commit, so that no
\* funds stay held for an active bid which the settlement of a closed or
\* cancelled auction did not take into account.
C20_BidSettlementRace ==
    [][\A a \in DOMAIN auctions :
          (/\ op'.name = "place_bid"
           /\ op'.ok
           /\ op'.target = {a}
           /\ balances'[op'.user].pending_balance > balances[op'.user].pending_balance)
          => auctions[a].status = "open"]_vars

\* ---- C21 --------------------------------------------------------------------------------
\* the status column of the transaction rows, in the order of the rows
TransactionStatuses(db) == [i \in DOMAIN db.transactions |-> db.transactions[i].status]

\* C21: the two settlement implementations are equivalent.  From every state of
\* an open auction (no bids, reserve not met, sale with and without losing
\* bidders) and for the same winning row, AuctionService.process_ended_auction
\* and _process_ended_auction leave the same auction status and winner, artwork
\* owner and listing flags, bid active flags, balances and transaction statuses.
C21_SettlementsEquivalent ==
    \A a \in DOMAIN auctions :
        auctions[a].status = "open"
        => \A wb \in find_winning_bid(DB, a) :
              LET route == app_process_ended_auction(DB, a, wb)
                  job == AuctionService_process_ended_auction(DB, a, wb)
              IN  /\ route.auctions = job.auctions
                  /\ route.artworks = job.artworks
                  /\ route.bids = job.bids
                  /\ route.balances = job.balances
                  /\ TransactionStatuses(route) = TransactionStatuses(job)

\* ---- C22 --------------------------------------------------------------------------------
\* The settlements of S that raise when NotificationRepository.create raises:
\* every branch of a settlement creates a notification (sale: winner and seller;
\* reserve not met: seller and bidders; no bids: seller), create_notification
\* and the settlement let the exception through to the caller of the settlement.
\* A failure of the email alone is caught in EmailService.send_email.
RaisedByNotification(S, create_raises) == IF create_raises THEN S ELSE {}

\* C22: a failure of the notification sink during settlement never aborts the
\* settlement: with the creation of the notification record raising, a batch
\* still closes every ended auction and commits its changes.
C22_NotificationFailure ==
    LET ended == EndedAuctions(DB)
    IN \A order \in Orders(ended), pick \in Picks(DB, ended) :
          LET failing == RaisedByNotification(ended, TRUE)
              route == process_ended_auctions(DB, DB, order, pick, failing)
              job == process_ended_auctions_job(DB, DB, order, pick, failing)
          IN  \A a \in ended : Settled(route, a) /\ Settled(job, a)

\* ---- C23 --------------------------------------------------------------------------------
\* C23: settlement is all-or-nothing.  When the settlement of an auction raises
\* partway, in close_auction or in a batch, none of its writes persist: its
\* auction row, its artwork and its bids are as before, the auction is still
\* open and the next scheduler tick selects it again; when every settlement of
\* the batch raises the whole database is as before.
C23_AllOrNothing ==
    /\ \A a \in DOMAIN auctions, u \in Users :
          \A wb \in find_winning_bid(DB, a) : close_auction_raising(DB, u, a, wb) = Reject(DB)
    /\ LET ended == EndedAuctions(DB)
       IN \A order \in Orders(ended), pick \in Picks(DB, ended), failing \in SUBSET ended :
             LET route == process_ended_auctions(DB, DB, order, pick, failing)
                 job == process_ended_auctions_job(DB, DB, order, pick, failing)
             IN  /\ \A a \in failing, r \in {route, job} :
                       /\ r.auctions[a] = auctions[a]
                       /\ r.artworks[auctions[a].artwork_id] = artworks[auctions[a].artwork_id]
                       /\ \A i \in DOMAIN bids : bids[i].auction_id = a => r.bids[i] = bids[i]
                       /\ a \in EndedAuctions(r)
                 /\ failing = ended => (route = DB /\ job = DB)

\* a batch has run in which the settlement of an auction with a bid raised: the
\* auction is among those the batch selected and is still open and ended
C23_Witness ==
    /\ op.name \in {"process_ended", "scheduler"}
    /\ \E a \in op.target :
          /\ a \in EndedAuctions(DB)
          /\ ActiveBids(DB, a) # {}

\* ---- C24 --------------------------------------------------------------------------------
\* what one settlement or one cancellation of auction a leaves of the database
SettlementsAndCancellation(a) ==
    {app_process_ended_auction(DB, a, wb) : wb \in find_winning_bid(DB, a)}
    \cup {AuctionService_process_ended_auction(DB, a, wb) : wb \in find_winning_bid(DB, a)}
    \cup {cancel_auction(DB, a)}

\* C24: refund scope.  Settling or cancelling auction A changes the active flag
\* and the amount of no bid on another auction B, and lowers a bidder's
\* pending_balance by no more than the bidder's active bid amount on A, so
\* that the funds held for the bidder's bids on B remain held.
C24_RefundScope ==
    \A a \in DOMAIN auctions :
        \A r \in SettlementsAndCancellation(a) :
            /\ \A i \in DOMAIN bids : bids[i].auction_id # a => r.bids[i] = bids[i]
            /\ \A u \in Users :
                  balances[u].pending_balance - r.balances[u].pending_balance
                    <= SumOver({i \in DOMAIN bids : /\ bids[i].auction_id = a
                                                    /\ bids[i].bidder_id = u
                                                    /\ bids[i].is_active},
                               [i \in DOMAIN bids |-> bids[i].amount])

\* a batch has settled auction A on which a bidder had bid, and the bidder's
\* active bid on the open auction B is still there with its funds held
C24_Witness ==
    /\ op.name \in {"process_ended", "scheduler"}
    /\ \E a \in op.target, b \in DOMAIN auctions, u \in Users :
          /\ b \notin op.target
          /\ auctions[a].status = "closed"
          /\ auctions[b].status = "open"
          /\ \E i \in DOMAIN bids : bids[i].auction_id = a /\ bids[i].bidder_id = u
          /\ ActiveBidsOf(DB, b, u) # {}
          /\ balances[u].pending_balance >= TotalAmount(DB, b, u)

\* ---- C25 --------------------------------------------------------------------------------
\* the auctions of the artwork whose status is open
OpenAuctionsOf(art) ==
    {a \in DOMAIN auctions : auctions[a].artwork_id = art /\ auctions[a].status = "open"}

\* C25: in every reachable state each artwork has at most one open auction,
\* whatever sequence of create-auction, list-as-auction, list-as-fixed, delist
\* and settlement operations has run.
C25_OneOpenAuction ==
    \A art \in DOMAIN artworks : Cardinality(OpenAuctionsOf(art)) <= 1

\* an artwork whose earlier auction took a bid has been listed as an auction
\* again and has its open auction
C25_Witness ==
    /\ op.name = "list_auction"
    /\ \E a \in OpenAuctionsOf(op.art) : \E i \in DOMAIN bids : bids[i].auction_id = a

\* ---- C26 --------------------------------------------------------------------------------
\* C26: listing an artwork as an auction while it has an open auction fails and
\* changes no state: the open auction, its bids and the bidders' held funds
\* stay as they were until the seller cancels the auction explicitly.
C26_ListingWithOpenAuctionFails ==
    \A u \in Users, art \in DOMAIN artworks,
       price \in StartPrices, reserve_price \in ReservePrices :
        OpenAuctionsOf(art) # {}
        => list_artwork(DB, u, art, "auction", price, reserve_price) = Reject(DB)

\* ---- C27 --------------------------------------------------------------------------------
\* C27: accepted new bid.  When a user who is not the seller, has no active bid
\* on the auction and has available_balance >= amount bids an amount above the
\* current price on an open auction that has not ended, the bid is accepted,
\* the user has one active bid of that amount on the auction, exactly the
\* amount has moved from available_balance to pending_balance (no other
\* balance changes) and one pending 'bid' transaction of the amount is appended.
C27_AcceptedNewBid ==
    \A a \in DOMAIN auctions, u \in Users, amount \in Amounts :
        (/\ auctions[a].status = "open"
         /\ ~auctions[a].expired
         /\ u # auctions[a].seller_id
         /\ ActiveBidsOf(DB, a, u) = {}
         /\ balances[u].available_balance >= amount
         /\ amount > (IF current_bid(DB, a) # NULL THEN current_bid(DB, a)
                      ELSE auctions[a].start_price))
        => LET r == place_bid_on_artwork(DB, u, auctions[a].artwork_id, amount)
           IN  /\ r.ok
               /\ Cardinality(ActiveBidsOf(r.db, a, u)) = 1
               /\ \A i \in ActiveBidsOf(r.db, a, u) : r.db.bids[i].amount = amount
               /\ r.db.balances =
                     [balances EXCEPT ![u] =
                        [available_balance |-> balances[u].available_balance - amount,
                         pending_balance |-> balances[u].pending_balance + amount]]
               /\ r.db.transactions =
                     Append(transactions,
                            [user_id |-> u, type |-> "bid", amount |-> amount,
                             status |-> "pending", artwork_id |-> auctions[a].artwork_id])

\* a new bid equal to the bidder's whole available balance has been accepted
C27_Witness ==
    /\ op.name = "place_bid"
    /\ Len(transactions) >= 1
    /\ transactions[Len(transactions)].type = "bid"
    /\ transactions[Len(transactions)].user_id = op.user
    /\ transactions[Len(transactions)].amount = op.amount
    /\ balances[op.user].available_balance = 0
    /\ \E a \in op.target : \E i \in ActiveBidsOf(DB, a, op.user) : bids[i].amount = op.amount

\* ---- C28 --------------------------------------------------------------------------------
\* the 'bid' and 'bid_increase' transactions for the artwork that are pending
PendingBidTransactions(txns, art) ==
    {i \in DOMAIN txns : /\ txns[i].artwork_id = art
                         /\ txns[i].type \in {"bid", "bid_increase"}
                         /\ txns[i].status = "pending"}

\* C28: once an open auction is settled or cancelled, through any entry point
\* (close, process-ended, scheduler, listing, delisting), none of the 'bid' or
\* 'bid_increase' transactions for its artwork is still pending (the winner's
\* are completed, the refunded bidders' cancelled), and no transaction row is
\* deleted.
C28_NoPendingAfterSettlement ==
    [][\A a \in DOMAIN auctions :
          (/\ auctions[a].status = "open"
           /\ a \in DOMAIN auctions'
           /\ auctions'[a].status \in {"closed", "cancelled"})
          => /\ PendingBidTransactions(transactions', auctions[a].artwork_id) = {}
             /\ Len(transactions') >= Len(transactions)]_vars

\* ---- C29 -------------------------------------------------------------------------
\* Amounts a deposit request can carry: the positive ones the clients send, zero
\* (the default of a body without "amount") and a negative one.
DepositAmounts == CashAmounts \cup Amounts \cup {0, 0 - 40}

C30_EventuallyClosed ==
    \A a \in AuctionIds :
        (/\ a \in DOMAIN auctions
         /\ auctions[a].status = "open"
         /\ auctions[a].expired
         /\ a \notin faults.raising)
        ~> (a \in DOMAIN auctions /\ auctions[a].status # "open")

\* ---- C31 -------------------------------------------------------------------------
\* the amounts of a bid request: those the clients send and one between them
BidAmounts == Amounts \cup {60}

\* C31: an accepted bid or raise sends the 'outbid' notification to the
\* previously highest bidder only when that bidder is another user and the new
\* amount exceeds the highest amount standing before the request; a raise by a
\* lower bidder that stays at or below the leader notifies nobody as outbid.
C31_OutbidOnlyWhenDisplaced ==
    \A u \in Users, art \in DOMAIN artworks, amount \in BidAmounts :
        place_bid_on_artwork(DB, u, art, amount).ok
            => \A h \in outbid_notification(DB, u, art) :
                  /\ h # u
                  /\ amount > current_bid(DB, OpenAuctionOf(DB, art))

\* ---- C32 -------------------------------------------------------------------------
\* reserve prices below the start prices of the requests
LowReservePrices == {p - 10 : p \in StartPrices}

\* C32: every auction has reserve_price unset or >= its start_price, whichever
\* request created it, and a request to create an auction with reserve_price
\* below start_price, by POST /api/auctions or by listing an artwork as an
\* auction, is rejected and changes nothing.
C32_ReserveAtLeastStart ==
    /\ \A a \in DOMAIN auctions :
          \/ auctions[a].reserve_price = NULL
          \/ auctions[a].reserve_price >= auctions[a].start_price
    /\ \A u \in Sellers, start_price \in StartPrices, reserve_price \in LowReservePrices :
          /\ create_auction(DB, u, start_price, reserve_price, FALSE) = Reject(DB)
          /\ \A art \in DOMAIN artworks :
                list_artwork(DB, u, art, "auction", start_price, reserve_price) = Reject(DB)

\* ---- C33 -------------------------------------------------------------------------
\* C33: an auction's winner is set only if the auction is closed and was closed
\* by a successful sale: the winner's purchase of the artwork, at an amount that
\* meets the reserve, is on record.  Open and cancelled auctions have no winner.
C33_WinnerOnlyOnSale ==
    \A a \in DOMAIN auctions :
        auctions[a].winner_id # NULL
            => /\ auctions[a].status = "closed"
               /\ \E i \in DOMAIN transactions :
                     /\ transactions[i].type = "purchase"
                     /\ transactions[i].user_id = auctions[a].winner_id
                     /\ transactions[i].artwork_id = auctions[a].artwork_id
                     /\ \/ auctions[a].reserve_price = NULL
                        \/ transactions[i].amount >= auctions[a].reserve_price

\* ---- C34 -------------------------------------------------------------------------
\* the sum of the amounts of u's active bids on open auctions
HeldByActiveBids(u) ==
    SumOver({i \in DOMAIN bids : /\ bids[i].bidder_id = u
                                 /\ bids[i].is_active
                                 /\ auctions[bids[i].auction_id].status = "open"},
            [i \in DOMAIN bids |-> bids[i].amount])

\* C34: ledger/bid consistency.  In every reachable state each user's
\* pending_balance equals the sum of the amounts of that user's active bids on
\* open auctions: no bid is deactivated without its hold being released or
\* spent, and no funds are held without an active bid.
C34_LedgerBidConsistency ==
    \A u \in Users : balances[u].pending_balance = HeldByActiveBids(u)

\* ---- C35 -------------------------------------------------------------------------
\* C35: no stale bids across auction rounds.  When an artwork has just been
\* listed as an auction, also after an earlier auction of it was closed or
\* cancelled, its open auction has no active bid: nothing of the earlier round
\* is left to count as the highest bid, to be refunded or to win again.
C35_NoStaleBids ==
    (op.name = "list_auction" /\ op.ok)
        => /\ OpenAuctionOf(DB, op.art) # NULL
           /\ ActiveBids(DB, OpenAuctionOf(DB, op.art)) = {}

\* ---- C36 -------------------------------------------------------------------------
\* C36: in every reachable state every user's available_balance and
\* pending_balance are >= 0, whatever sequence of deposits, withdrawals, bids,
\* raises, bid adjustments, bid cancellations, purchases, auction cancellations
\* and settlements led to it.
C36_BalancesNonNegative ==
    \A u \in Users :
        /\ balances[u].available_balance >= 0
        /\ balances[u].pending_balance >= 0

\* ---- C37 -------------------------------------------------------------------------
\* C37: ledger updates of one user are atomic across that user's concurrent
\* requests.  When a bid request commits on an auction that is as it was when
\* the request read it, and the user's ledger was sound before the commit
\* (available_balance >= 0, pending_balance the sum of the user's active bids
\* on the auction), it is sound after it, as it would be after the same
\* requests served one after the other: available_balance is not below zero
\* and no hold is left without its active bid.
C37_AtomicLedgerUpdates ==
    [][\A w \in Workers :
          LET q == requests[w]
              u == q.user
              a == q.snap.auction
              now == place_bid_read(DB, u, q.art)
          IN  (/\ q.pc = "write"
               /\ requests'[w].pc = "idle"
               /\ op'.name = "place_bid" /\ op'.ok /\ op'.user = u
               /\ now.auction = a /\ now.expired = q.snap.expired
               /\ now.seller_id = q.snap.seller_id
               /\ balances[u].available_balance >= 0
               /\ balances[u].pending_balance = TotalAmount(DB, a, u))
              => /\ balances'[u].available_balance >= 0
                 /\ balances'[u].pending_balance = TotalAmount(DB', a, u)]_vars

\* ---- C38 -------------------------------------------------------------------------
\* C38: bids are frozen between expiry and settlement.  While an auction is
\* past its end_time and not yet settled, the bidder of an active bid on it can
\* neither cancel the bid nor lower its amount: both requests are rejected and
\* change nothing, so the bid that was highest at end_time is still there for
\* the settlement to charge.
C38_BidsFrozenAfterExpiry ==
    \A i \in DOMAIN bids :
        (/\ bids[i].is_active
         /\ auctions[bids[i].auction_id].status = "open"
         /\ auctions[bids[i].auction_id].expired)
        => /\ cancel_bid(DB, bids[i].bidder_id, i) = Reject(DB)
           /\ \A new_amount \in Amounts :
                 new_amount < bids[i].amount
                    => update_bid(DB, bids[i].bidder_id, i, new_amount) = Reject(DB)

\* ---- C39 -------------------------------------------------------------------------
\* the pending_balance column of the balances table
PendingBalances(db) == [u \in Users |-> db.balances[u].pending_balance]

\* C39: held funds cannot be spent elsewhere.  A withdrawal or a fixed-price
\* purchase is accepted only if the user's available_balance alone covers its
\* amount, it takes the amount from available_balance, and it changes nobody's
\* pending_balance; a request the available_balance does not cover is rejected
\* and changes nothing, whatever the user has on hold.
C39_HeldFundsStayHeld ==
    /\ \A u \in Users, amount \in Amounts :
          LET r == withdraw(DB, u, amount)
          IN  IF balances[u].available_balance >= amount
              THEN /\ r.ok
                   /\ r.db.balances[u].available_balance
                          = balances[u].available_balance - amount
                   /\ PendingBalances(r.db) = PendingBalances(DB)
              ELSE r = Reject(DB)
    /\ \A u \in Users, art \in DOMAIN artworks :
          LET r == purchase_artwork(DB, u, art)
          IN  IF r.ok
              THEN /\ balances[u].available_balance >= artworks[art].price
                   /\ r.db.balances[u].available_balance
                          = balances[u].available_balance - artworks[art].price
                   /\ PendingBalances(r.db) = PendingBalances(DB)
              ELSE r = Reject(DB)

\* a user with funds on hold for a bid has withdrawn from the available balance
C39_Witness ==
    /\ op.name = "withdraw"
    /\ op.ok
    /\ balances[op.user].pending_balance > 0
    /\ transactions[Len(transactions)].type = "withdrawal"

\* ---- C40 -------------------------------------------------------------------------
\* C40: the winner of a settled auction is never that auction's seller: in
\* every reachable state a closed auction with a winner has winner # seller, so
\* that no settlement spends from and credits the same user.
C40_WinnerIsNotSeller ==
    \A a \in DOMAIN auctions :
        (auctions[a].status = "closed" /\ auctions[a].winner_id # NULL)
            => auctions[a].winner_id # auctions[a].seller_id
====
